---- MODULE Spec2Model ----
(***************************************************************************)
(* Model of the two scripts of az-devops-pr-review-extractor:              *)
(*   get_user_prs.py     the PR Lister                                      *)
(*   get_pr_comments.py  the Comment Aggregator (repository resolver,       *)
(*                       comment fetcher, aggregation driver)               *)
(* Files are modelled by their content, the external `az` tool by the       *)
(* outcomes of its calls, and text by sequences of one-character strings.   *)
(***************************************************************************)
EXTENDS Integers, Sequences, FiniteSets, TLC

\* ------------------------------------------------------------------ bounds
MaxPrs == 2         \* pull requests returned by the platform's list call
MaxThreads == 2     \* threads in one thread-listing response
MaxComments == 2    \* comments in one thread-listing response
MaxRuns == 2        \* consecutive runs of the Comment Aggregator

\* ------------------------------------------------------------------ text
NL == "NL"          \* the newline character
Comma == ","
DigitChar == <<"0", "1", "2", "3", "4", "5", "6", "7", "8", "9">>
Digit == {DigitChar[k] : k \in 1..10}
DigitVal(c) == CHOOSE k \in 0..9 : DigitChar[k + 1] = c

\* str(n) of a non-negative int
RECURSIVE StrInt(_)
StrInt(n) ==
    IF n < 10 THEN <<DigitChar[n + 1]>>
    ELSE StrInt(n \div 10) \o <<DigitChar[(n % 10) + 1]>>

\* int(s): -1 stands for ValueError (empty text or a character that is no digit)
RECURSIVE IntVal(_)
IntVal(s) ==
    IF Len(s) = 1 THEN DigitVal(s[1])
    ELSE 10 * IntVal(SubSeq(s, 1, Len(s) - 1)) + DigitVal(s[Len(s)])

IntOf(s) ==
    IF s = <<>> \/ \E k \in 1..Len(s) : s[k] \notin Digit THEN -1 ELSE IntVal(s)

IsSpace(c) == c \in {NL, " "}

RECURSIVE LStrip(_)
LStrip(s) == IF s # <<>> /\ IsSpace(Head(s)) THEN LStrip(Tail(s)) ELSE s

RECURSIVE RStrip(_)
RStrip(s) ==
    IF s # <<>> /\ IsSpace(s[Len(s)]) THEN RStrip(SubSeq(s, 1, Len(s) - 1)) ELSE s

\* str.strip()
Strip(s) == RStrip(LStrip(s))

\* str.rstrip(',')
RECURSIVE RStripComma(_)
RStripComma(s) ==
    IF s # <<>> /\ s[Len(s)] = Comma THEN RStripComma(SubSeq(s, 1, Len(s) - 1)) ELSE s

\* str.split('\n')
RECURSIVE SplitLines(_)
SplitLines(s) ==
    IF \A k \in 1..Len(s) : s[k] # NL THEN <<s>>
    ELSE LET k == CHOOSE j \in 1..Len(s) : s[j] = NL /\ \A m \in 1..(j - 1) : s[m] # NL
         IN  <<SubSeq(s, 1, k - 1)>> \o SplitLines(SubSeq(s, k + 1, Len(s)))

RECURSIVE Concat(_)
Concat(ss) == IF ss = <<>> THEN <<>> ELSE Head(ss) \o Concat(Tail(ss))

\* ------------------------------------------------------------------ files
IdsFile == "user_prs.json"          \* user_prs_file, the intermediate file
DefaultOutput == "pr_comments.json" \* the default of --output
Paths == {IdsFile, DefaultOutput}

Absent == [kind |-> "absent", recs |-> <<>>, text |-> <<>>]
\* a JSON array of records, as json.dump writes it
JsonArray(rs) == [kind |-> "json_array", recs |-> rs, text |-> <<>>]
\* valid JSON whose value is no array (an object, a number, a string)
JsonOther == [kind |-> "json_other", recs |-> <<>>, text |-> <<>>]
\* text that is not valid JSON
Text(t) == [kind |-> "text", recs |-> <<>>, text |-> t]
\* bytes that are not valid UTF-8
Bytes == [kind |-> "bytes", recs |-> <<>>, text |-> <<>>]

\* ------------------------------------------------------------------ PR Lister
\* the "pullRequestId" field of a listed pull request: absent, an int, a string
NoId == [kind |-> "none", n |-> 0]
IntId(n) == [kind |-> "int", n |-> n]
TextId == [kind |-> "str", n |-> 0]

\* Python truthiness of pr.get("pullRequestId")
Truthy(id) == (id.kind = "int" /\ id.n # 0) \/ id.kind = "str"

\* str(pr_id)
StrOf(id) == IF id.kind = "int" THEN StrInt(id.n) ELSE <<"x">>

\* a filter that forgets the "completed" status
Included_ActiveOnly(pr) == pr.status = "active" /\ Truthy(pr.pullRequestId)

\* the two tests of the filter loop: the status, then the identifier
Included(pr) == pr.status \in {"active", "completed"} /\ Truthy(pr.pullRequestId)

\* get_user_completed_prs, the filter loop over the parsed response
RECURSIVE get_user_completed_prs(_)
get_user_completed_prs(prs) ==
    IF prs = <<>> THEN <<>>
    ELSE (IF Included(Head(prs)) THEN <<StrOf(Head(prs).pullRequestId)>> ELSE <<>>)
         \o get_user_completed_prs(Tail(prs))

\* main of get_user_prs.py: one "<id>,\n" per identifier
RECURSIVE WriteIds(_)
WriteIds(ids) ==
    IF ids = <<>> THEN <<>>
    ELSE Head(ids) \o <<Comma, NL>> \o WriteIds(Tail(ids))

\* the identifier file after a successful run of the PR Lister
ListerFile(prs) == Text(WriteIds(get_user_completed_prs(prs)))

\* ------------------------------------------------------------------ Comment Fetcher
NoField == "<absent>"   \* a key the platform's JSON does not hold

\* a comment of a thread: author.displayName, content, commentType, publishedDate
Comment(a, c, t, d) == [author |-> a, content |-> c, commentType |-> t, publishedDate |-> d]

\* a thread: with or without the "comments" key
Thread(cs) == [has_comments |-> TRUE, comments |-> cs]
BareThread == [has_comments |-> FALSE, comments |-> <<>>]

\* dict.get(key, default)
Get(v, default) == IF v = NoField THEN default ELSE v

\* the record appended for a comment that passes the filter
CommentRecord(c) ==
    [reviewer_name |-> Get(c.author, "Unknown"),
     comment |-> c.content,
     date |-> Get(c.publishedDate, "")]

\* a filter that looks at the content only
Qualifies_ContentOnly(c) == Get(c.content, "") # ""

\* `if content and comment_type != "system"`
Qualifies(c) == Get(c.content, "") # "" /\ Get(c.commentType, "") # "system"

\* the inner loop, over the comments of one thread
RECURSIVE ExtractThread(_)
ExtractThread(cs) ==
    IF cs = <<>> THEN <<>>
    ELSE (IF Qualifies(Head(cs)) THEN <<CommentRecord(Head(cs))>> ELSE <<>>)
         \o ExtractThread(Tail(cs))

\* the outer loop, over the threads of the response
RECURSIVE ExtractComments(_)
ExtractComments(ts) ==
    IF ts = <<>> THEN <<>>
    ELSE (IF Head(ts).has_comments THEN ExtractThread(Head(ts).comments) ELSE <<>>)
         \o ExtractComments(Tail(ts))

\* ------------------------------------------------------------------ state
VARIABLES
    prs_data,           \* the platform: the parsed response of `az repos pr list`
    threads_data,       \* the platform: the threads of each pull request, by number
    output,             \* args.output
    fs,                 \* the files, by path
    pc,                 \* the position of the running script
    pr_ids,             \* main: the identifiers parsed from the identifier file
    i,                  \* main: the index of the loop over pr_ids
    existing_comments,  \* main: the value loaded from the output file
    all_new_comments,   \* main: the records fetched in this run
    comments,           \* the return value of get_pr_comments
    exit_code,          \* the exit status of the script; -1 while it runs
    stderr,             \* the diagnostics written to the error stream
    run,                \* the number of the Aggregator run
    out_before,         \* history: the output file when the run started
    ids_listed,         \* history: the identifier file the PR Lister left
    events,             \* history: the steps of the run, in order
    prev                \* history: how the previous run ended

vars == <<prs_data, threads_data, output, fs, pc, pr_ids, i, existing_comments,
          all_new_comments, comments, exit_code, stderr, run, out_before,
          ids_listed, events, prev>>

aggregator_vars == <<output, pr_ids, i, existing_comments, all_new_comments, run,
                     out_before, ids_listed, events, prev>>

SeqsUpTo(S, n) == UNION {[1..k -> S] : k \in 0..n}

NoPrev == [valid |-> FALSE, exit_code |-> -1, out_before |-> Absent, out_after |-> Absent]

\* ------------------------------------------------------------------ the platform
\* the "value" of the thread-listing response for pull request n
ThreadsFor(n) == IF n \in DOMAIN threads_data THEN threads_data[n] ELSE <<>>

\* ------------------------------------------------------------------ the PR Lister alone
Statuses == {"active", "completed", "abandoned", ""}
ListedIds == {NoId, IntId(0), IntId(7), IntId(12), TextId}
ListedPrs == [status : Statuses, pullRequestId : ListedIds]

InitLister ==
    /\ prs_data \in SeqsUpTo(ListedPrs, MaxPrs)
    /\ threads_data = <<>>
    /\ output \in Paths
    /\ fs \in {[p \in Paths |-> Absent], [p \in Paths |-> Text(<<"9", Comma, NL>>)]}
    /\ pc = "lister"
    /\ pr_ids = <<>> /\ i = 0
    /\ existing_comments = <<>>
    /\ all_new_comments = <<>> /\ comments = <<>>
    /\ exit_code = -1 /\ stderr = {}
    /\ run = 0 /\ out_before = Absent /\ ids_listed = Absent
    /\ events = <<>> /\ prev = NoPrev

Diag(m, k) == [msg |-> m, pr |-> k]

\* get_user_prs.py, the call succeeding: filter, then write args.output
ListerMainOk ==
    /\ pc = "lister"
    /\ fs' = [fs EXCEPT ![output] = ListerFile(prs_data)]
    /\ pc' = "exited" /\ exit_code' = 0
    /\ UNCHANGED <<prs_data, threads_data, stderr, comments, aggregator_vars>>

\* get_user_prs.py, the call failing or its output not JSON: sys.exit(1)
ListerMainFail ==
    /\ pc = "lister"
    /\ \E why \in {"lister: cli error", "lister: not JSON", "lister: unexpected"} :
         stderr' = stderr \cup {Diag(why, 0)}
    /\ pc' = "exited" /\ exit_code' = 1
    /\ UNCHANGED <<prs_data, threads_data, fs, comments, aggregator_vars>>

NextLister == ListerMainOk \/ ListerMainFail

SpecLister == InitLister /\ [][NextLister]_vars

\* ------------------------------------------------------------------ the Comment Aggregator
\* step 2 of main: the identifiers of the identifier file's text
ParseIds(text) ==
    LET lines == SplitLines(Strip(text))
        NotBlank(l) == Strip(l) # <<>>
        kept == SelectSeq(lines, NotBlank)
    IN  [k \in 1..Len(kept) |-> RStripComma(Strip(kept[k]))]

platform == <<prs_data, threads_data>>

Ev(name, k) == <<name, k>>

\* sys.exit(1), or an exception nothing catches
Exit1(diag, ev) ==
    /\ pc' = "exited" /\ exit_code' = 1
    /\ stderr' = stderr \cup {diag}
    /\ events' = Append(events, ev)

\* the script is started: arguments parsed, nothing done yet
StartRun ==
    /\ pc \in {"idle", "exited"}
    /\ run < MaxRuns
    /\ run' = run + 1
    /\ pc' = "lister"
    /\ exit_code' = -1 /\ stderr' = {} /\ events' = <<>>
    /\ pr_ids' = <<>> /\ i' = 0 /\ comments' = <<>>
    /\ existing_comments' = <<>> /\ all_new_comments' = <<>>
    /\ out_before' = fs[output] /\ ids_listed' = Absent
    /\ prev' = IF run = 0 THEN NoPrev
               ELSE [valid |-> TRUE, exit_code |-> exit_code,
                     out_before |-> out_before, out_after |-> fs[output]]
    /\ UNCHANGED <<platform, output, fs>>

\* step 1, the subprocess exits 0: it has written user_prs.json
RunListerOk ==
    /\ pc = "lister"
    /\ fs' = [fs EXCEPT ![IdsFile] = ListerFile(prs_data)]
    /\ ids_listed' = ListerFile(prs_data)
    /\ events' = Append(events, Ev("lister_done", 0))
    /\ pc' = "read_ids"
    /\ UNCHANGED <<platform, output, pr_ids, i, existing_comments, all_new_comments,
                   comments, exit_code, stderr, run, out_before, prev>>

\* step 1, the subprocess exits non-zero: CalledProcessError, sys.exit(1)
RunListerFail ==
    /\ pc = "lister"
    /\ Exit1(Diag("Error running get_user_prs.py", 0), Ev("lister_failed", 0))
    /\ UNCHANGED <<platform, output, fs, pr_ids, i, existing_comments,
                   all_new_comments, comments, run, out_before, ids_listed, prev>>

\* step 2: read and parse the identifier file; FileNotFoundError is fatal
ReadIds ==
    /\ pc = "read_ids"
    /\ IF fs[IdsFile].kind = "absent"
       THEN /\ Exit1(Diag("user_prs.json not found", 0), Ev("ids_missing", 0))
            /\ UNCHANGED pr_ids
       ELSE /\ pr_ids' = ParseIds(fs[IdsFile].text)
            /\ events' = Append(events, Ev("ids_read", 0))
            /\ pc' = "load"
            /\ UNCHANGED <<exit_code, stderr>>
    /\ UNCHANGED <<platform, output, fs, i, existing_comments, all_new_comments,
                   comments, run, out_before, ids_listed, prev>>

\* the value json.load returns for a file, when it returns one
AList(rs) == [is_list |-> TRUE, recs |-> rs]
NotAList == [is_list |-> FALSE, recs |-> <<>>]

\* step 3: the exceptions of open + json.load that main does not catch
LoadFails(f) == f.kind = "bytes"

\* a loader that always starts from the empty list
Loaded_StartFresh(f) == AList(<<>>)

\* step 3: what existing_comments holds after the try block
Loaded(f) ==
    CASE f.kind = "json_array" -> AList(f.recs)
      [] f.kind = "json_other" -> NotAList
      [] OTHER -> AList(<<>>)       \* FileNotFoundError, JSONDecodeError: pass

\* step 3: load the output file
LoadExisting ==
    /\ pc = "load"
    /\ IF LoadFails(fs[output])
       THEN /\ Exit1(Diag("Traceback: UnicodeDecodeError", 0), Ev("output_read_failed", 0))
            /\ UNCHANGED <<existing_comments, i>>
       ELSE /\ existing_comments' = Loaded(fs[output])
            /\ events' = Append(events, Ev("output_read", 0))
            /\ i' = 1
            /\ pc' = "loop"
            /\ UNCHANGED <<exit_code, stderr>>
    /\ UNCHANGED <<platform, output, fs, pr_ids, all_new_comments, comments, run,
                   out_before, ids_listed, prev>>

\* step 4, one identifier: int(pr_id), and the call of get_pr_comments begins;
\* ValueError is an Exception: the handler of main warns and continues
FetchBegin ==
    /\ pc = "loop" /\ i <= Len(pr_ids)
    /\ IF IntOf(pr_ids[i]) = -1
       THEN /\ stderr' = stderr \cup {Diag("Warning: Failed to get comments for PR", i)}
            /\ events' = Append(events, Ev("fetch_skipped", i))
            /\ i' = i + 1
            /\ UNCHANGED pc
       ELSE /\ pc' = "repo"
            /\ events' = Append(events, Ev("fetch_start", i))
            /\ UNCHANGED <<stderr, i>>
    /\ UNCHANGED <<platform, output, fs, pr_ids, existing_comments, all_new_comments,
                   comments, exit_code, run, out_before, ids_listed, prev>>

\* get_repository_id returns the id
RepoOk ==
    /\ pc = "repo"
    /\ pc' = "threads"
    /\ UNCHANGED <<platform, output, fs, pr_ids, i, existing_comments, all_new_comments,
                   comments, exit_code, stderr, run, out_before, ids_listed, events, prev>>

\* a failure of get_repository_id that the handler of main catches: warn, continue
RepoFail_Caught ==
    /\ pc = "repo"
    /\ stderr' = stderr \cup {Diag("Error getting repository ID", i),
                              Diag("Warning: Failed to get comments for PR", i)}
    /\ events' = Append(events, Ev("fetch_failed", i))
    /\ i' = i + 1
    /\ pc' = "loop"
    /\ UNCHANGED <<platform, output, fs, pr_ids, existing_comments, all_new_comments,
                   comments, exit_code, run, out_before, ids_listed, prev>>

\* a failure of get_repository_id that removes the identifier file before exiting
RepoFail_Cleanup ==
    /\ pc = "repo"
    /\ Exit1(Diag("Error getting repository ID", i), Ev("fetch_failed", i))
    /\ fs' = [fs EXCEPT ![IdsFile] = Absent]
    /\ UNCHANGED <<platform, output, pr_ids, i, existing_comments, all_new_comments,
                   comments, run, out_before, ids_listed, prev>>

\* get_repository_id: `az repos show` exits non-zero, or its output is not JSON
\* or has no "id": sys.exit(1); SystemExit is no Exception, no handler catches it
RepoFail ==
    /\ pc = "repo"
    /\ \E why \in {"Error getting repository ID", "Error parsing repository data"} :
         Exit1(Diag(why, i), Ev("fetch_failed", i))
    /\ UNCHANGED <<platform, output, fs, pr_ids, i, existing_comments, all_new_comments,
                   comments, run, out_before, ids_listed, prev>>

\* get_pr_comments returns: the records are appended to all_new_comments
ThreadsOk ==
    /\ pc = "threads"
    /\ LET got == ExtractComments(ThreadsFor(IntOf(pr_ids[i])))
       IN  /\ comments' = got
           /\ all_new_comments' = all_new_comments \o got
    /\ events' = Append(events, Ev("fetch_returned", i))
    /\ i' = i + 1
    /\ pc' = "loop"
    /\ UNCHANGED <<platform, output, fs, pr_ids, existing_comments, exit_code, stderr,
                   run, out_before, ids_listed, prev>>

\* get_pr_comments: `az rest` exits non-zero, its output is not JSON, or the
\* response has another shape: each handler ends in sys.exit(1)
ThreadsFail ==
    /\ pc = "threads"
    /\ \E why \in {"Error executing Azure CLI command", "Error parsing JSON response",
                   "Unexpected error"} :
         Exit1(Diag(why, i), Ev("fetch_failed", i))
    /\ UNCHANGED <<platform, output, fs, pr_ids, i, existing_comments, all_new_comments,
                   comments, run, out_before, ids_listed, prev>>

\* a write that drops the records loaded from the output file
WriteOutput_NewOnly ==
    /\ pc = "loop" /\ i > Len(pr_ids)
    /\ fs' = [fs EXCEPT ![output] = JsonArray(all_new_comments)]
    /\ events' = Append(events, Ev("output_written", 0))
    /\ pc' = "delete"
    /\ UNCHANGED <<platform, output, pr_ids, i, existing_comments, all_new_comments,
                   comments, exit_code, stderr, run, out_before, ids_listed, prev>>

\* a write inside the loop: after the first identifier instead of after the last
WriteOutput_Early ==
    /\ pc = "loop" /\ i > 1
    /\ existing_comments.is_list
    /\ fs' = [fs EXCEPT ![output] =
                 JsonArray(existing_comments.recs \o all_new_comments)]
    /\ events' = Append(events, Ev("output_written", 0))
    /\ pc' = "delete"
    /\ UNCHANGED <<platform, output, pr_ids, i, existing_comments, all_new_comments,
                   comments, exit_code, stderr, run, out_before, ids_listed, prev>>

\* steps 5 and 6: concatenate and overwrite the output file; a loaded value
\* that is no list makes `+` raise TypeError, which nothing catches
WriteOutput ==
    /\ pc = "loop" /\ i > Len(pr_ids)
    /\ IF ~existing_comments.is_list
       THEN /\ Exit1(Diag("Traceback: TypeError", 0), Ev("merge_failed", 0))
            /\ UNCHANGED fs
       ELSE /\ fs' = [fs EXCEPT ![output] =
                         JsonArray(existing_comments.recs \o all_new_comments)]
            /\ events' = Append(events, Ev("output_written", 0))
            /\ pc' = "delete"
            /\ UNCHANGED <<exit_code, stderr>>
    /\ UNCHANGED <<platform, output, pr_ids, i, existing_comments, all_new_comments,
                   comments, run, out_before, ids_listed, prev>>

\* step 7: os.remove(user_prs_file) succeeds; main returns, exit status 0
DeleteOk ==
    /\ pc = "delete"
    /\ fs' = [fs EXCEPT ![IdsFile] = Absent]
    /\ events' = Append(events, Ev("ids_deleted", 0))
    /\ pc' = "exited" /\ exit_code' = 0
    /\ UNCHANGED <<platform, output, pr_ids, i, existing_comments, all_new_comments,
                   comments, stderr, run, out_before, ids_listed, prev>>

\* a failed deletion that ends the run with an error
DeleteFail_Fatal ==
    /\ pc = "delete"
    /\ Exit1(Diag("Warning: Could not delete user_prs.json", 0), Ev("ids_delete_failed", 0))
    /\ UNCHANGED <<platform, output, fs, pr_ids, i, existing_comments, all_new_comments,
                   comments, run, out_before, ids_listed, prev>>

\* step 7: os.remove raises OSError: a warning; main returns, exit status 0
DeleteFail ==
    /\ pc = "delete"
    /\ stderr' = stderr \cup {Diag("Warning: Could not delete user_prs.json", 0)}
    /\ events' = Append(events, Ev("ids_delete_failed", 0))
    /\ pc' = "exited" /\ exit_code' = 0
    /\ UNCHANGED <<platform, output, fs, pr_ids, i, existing_comments, all_new_comments,
                   comments, run, out_before, ids_listed, prev>>

\* the platform of the Aggregator's runs
AnnA == Comment("Ann", "a", "text", "2024-01-01")
SysS == Comment(NoField, "policy", "system", "2024-01-02")
BobEmpty == Comment("Bob", "", "text", "2024-01-03")
AnonB == Comment(NoField, "b", NoField, NoField)
BobC == Comment("Bob", "c", "text", "2024-01-04")

PlatformThreads ==
    (7 :> <<Thread(<<AnnA, SysS>>), BareThread>>)
    @@ (12 :> <<Thread(<<AnonB>>), Thread(<<BobEmpty, BobC>>)>>)
    @@ (3 :> <<Thread(<<BobC>>)>>)

AggregatedPrs ==
    {[status |-> "active", pullRequestId |-> IntId(7)],
     [status |-> "completed", pullRequestId |-> IntId(12)],
     [status |-> "abandoned", pullRequestId |-> IntId(3)],
     [status |-> "active", pullRequestId |-> TextId]}

OldRecord == [reviewer_name |-> "Old", comment |-> "kept", date |-> ""]

\* what the output path may hold before the first run
InitialOutputs == {Absent, JsonArray(<<OldRecord>>), JsonOther, Text(<<"[">>), Bytes}

Init ==
    /\ prs_data \in SeqsUpTo(AggregatedPrs, MaxPrs)
    /\ threads_data = PlatformThreads
    /\ output \in Paths
    /\ \E o \in InitialOutputs, stale \in {Absent, Text(<<"9", Comma, NL>>)} :
         fs = IF output = IdsFile
              THEN (IdsFile :> o) @@ (DefaultOutput :> Absent)
              ELSE (IdsFile :> stale) @@ (DefaultOutput :> o)
    /\ pc = "idle"
    /\ pr_ids = <<>> /\ i = 0
    /\ existing_comments = <<>>
    /\ all_new_comments = <<>> /\ comments = <<>>
    /\ exit_code = -1 /\ stderr = {}
    /\ run = 0 /\ out_before = Absent /\ ids_listed = Absent
    /\ events = <<>> /\ prev = NoPrev

Next ==
    \/ StartRun
    \/ RunListerOk
    \/ RunListerFail
    \/ ReadIds
    \/ LoadExisting
    \/ FetchBegin
    \/ RepoOk
    \/ RepoFail
    \/ ThreadsOk
    \/ ThreadsFail
    \/ WriteOutput
    \/ DeleteOk
    \/ DeleteFail

Spec == Init /\ [][Next]_vars

\* ------------------------------------------------------------------ one call of the Comment Fetcher
Authors == {NoField, "Ann"}
Contents == {"", "a"}
CommentTypes == {"system", "text", NoField}
FetchedComments ==
    {Comment(a, c, t, "2024-01-01") : a \in Authors, c \in Contents, t \in CommentTypes}

\* a layout gives each thread its number of comments; -1: no "comments" key
Layouts == SeqsUpTo((-1)..MaxComments, MaxThreads)

RECURSIVE LayoutSum(_)
LayoutSum(l) ==
    IF l = <<>> THEN 0
    ELSE (IF Head(l) < 0 THEN 0 ELSE Head(l)) + LayoutSum(Tail(l))

\* the threads that hold the comments cs in the layout l
Laid(cs, l) ==
    [k \in 1..Len(l) |->
        IF l[k] < 0 THEN BareThread
        ELSE LET before == LayoutSum(SubSeq(l, 1, k - 1))
             IN  Thread(SubSeq(cs, before + 1, before + l[k]))]

\* main calls get_pr_comments for the one identifier of the list
InitFetch ==
    /\ prs_data = <<[status |-> "active", pullRequestId |-> IntId(7)]>>
    /\ \E cs \in SeqsUpTo(FetchedComments, MaxComments), l \in Layouts :
         /\ LayoutSum(l) = Len(cs)
         /\ threads_data = (7 :> Laid(cs, l))
    /\ output = DefaultOutput
    /\ fs = (IdsFile :> ListerFile(prs_data)) @@ (DefaultOutput :> Absent)
    /\ pc = "loop"
    /\ pr_ids = ParseIds(fs[IdsFile].text) /\ i = 1
    /\ existing_comments = AList(<<>>)
    /\ all_new_comments = <<>> /\ comments = <<>>
    /\ exit_code = -1 /\ stderr = {}
    /\ run = 1 /\ out_before = Absent /\ ids_listed = fs[IdsFile]
    /\ events = <<Ev("lister_done", 0), Ev("ids_read", 0), Ev("output_read", 0)>>
    /\ prev = NoPrev

NextFetch ==
    \/ FetchBegin
    \/ RepoOk
    \/ RepoFail
    \/ ThreadsOk
    \/ ThreadsFail

SpecFetch == InitFetch /\ [][NextFetch]_vars

\* ------------------------------------------------------------------ the history of a run
Has(name, k) == \E n \in 1..Len(events) : events[n] = Ev(name, k)
Pos(name, k) == CHOOSE n \in 1..Len(events) : events[n] = Ev(name, k)
Count(name, k) == Cardinality({n \in 1..Len(events) : events[n] = Ev(name, k)})
Said(m) == \E d \in stderr : d.msg = m
RunOver == pc = "exited"
RunWrote == Has("output_written", 0)
FetchFailed(k) == Has("fetch_failed", k)
AnyFetchFailed == \E k \in 1..Len(pr_ids) : FetchFailed(k)
\* the fetch of identifier k is over
FetchEnded(k) == Has("fetch_returned", k) \/ Has("fetch_skipped", k) \/ Has("fetch_failed", k)
FetchBegan(k) == Has("fetch_start", k) \/ Has("fetch_skipped", k)
RecsOf(f) == IF f.kind = "json_array" THEN f.recs ELSE <<>>
IsPrefix(a, b) == Len(a) <= Len(b) /\ SubSeq(b, 1, Len(a)) = a

\* ------------------------------------------------------------------ C1
\* C1: when the fetch of one identifier fails (repository resolution, the thread
\* request, or its JSON), the run warns for that PR, attempts every identifier,
\* writes the output file and exits with success.
C1_PartialFailureContinues ==
    (RunOver /\ AnyFetchFailed) =>
        /\ exit_code = 0
        /\ RunWrote
        /\ \A k \in 1..Len(pr_ids) : FetchBegan(k)
        /\ \A k \in 1..Len(pr_ids) :
             FetchFailed(k) => Diag("Warning: Failed to get comments for PR", k) \in stderr

\* ------------------------------------------------------------------ C2
RepoCallFailed == Said("Error getting repository ID")

\* C2 as stated: when `az repos show` exits non-zero, the run exits non-zero with
\* an error on stderr and the output file is as it was before the run.
C2_RepoFailureLeavesOutput ==
    RepoCallFailed =>
        /\ RunOver /\ exit_code # 0
        /\ fs[output] = out_before

\* C2 amended: the same, provided --output is not the identifier file
\* user_prs.json, which the PR Lister overwrites before the resolution.
C2_RepoFailureLeavesOutput_Amended ==
    (RepoCallFailed /\ output # IdsFile) =>
        /\ RunOver /\ exit_code # 0
        /\ fs[output] = out_before

C2_Witness ==
    /\ RepoCallFailed /\ output # IdsFile /\ RunOver
    /\ out_before = JsonArray(<<OldRecord>>)
    /\ Has("fetch_returned", 1) /\ FetchFailed(2)

\* ------------------------------------------------------------------ C3
ListerDone == pc = "exited" /\ exit_code = 0 /\ run = 0
LineCount(t) == Cardinality({k \in 1..Len(t) : t[k] = NL})
C3_StatusKept(pr) == pr.status = "active" \/ pr.status = "completed"
C3_StatusKeptWithId(pr) == C3_StatusKept(pr) /\ pr.pullRequestId.kind # "none"
C3_HasUsableId(pr) ==
    /\ pr.pullRequestId.kind # "none"
    /\ ~(pr.pullRequestId.kind = "int" /\ pr.pullRequestId.n = 0)
C3_Kept(pr) == C3_StatusKept(pr) /\ C3_HasUsableId(pr)

\* C3 as stated: the identifier file holds one line for each listed pull
\* request that has an identifier and whose status is "active" or "completed",
\* whatever the value of the identifier.
C3_ListedIffStatus ==
    ListerDone =>
        LineCount(fs[output].text) = Len(SelectSeq(prs_data, C3_StatusKeptWithId))

\* C3 amended: the identifier file holds, in listed order, one line "<id>," for
\* each pull request whose status is exactly "active" or "completed" and whose
\* pullRequestId is present and not 0, and nothing else.
C3_ListedIffStatus_Amended ==
    ListerDone =>
        LET kept == SelectSeq(prs_data, C3_Kept)
        IN  /\ fs[output].kind = "text"
            /\ SplitLines(fs[output].text) =
                 [k \in 1..(Len(kept) + 1) |->
                    IF k <= Len(kept)
                    THEN StrOf(kept[k].pullRequestId) \o <<Comma>>
                    ELSE <<>>]

C3_Witness ==
    /\ ListerDone
    /\ Len(prs_data) = 2
    /\ prs_data[1].status = "abandoned" /\ prs_data[1].pullRequestId = IntId(7)
    /\ prs_data[2].status = "completed" /\ prs_data[2].pullRequestId = IntId(12)
    /\ fs[output].text = <<"1", "2", Comma, NL>>

\* ------------------------------------------------------------------ C4
FetchReturned == Has("fetch_returned", 1) /\ i = 2
C4_Flat(ts) == Concat([k \in 1..Len(ts) |->
                         IF ts[k].has_comments THEN ts[k].comments ELSE <<>>])
C4_Keep(c) == c.content # "" /\ c.commentType # "system"

\* C4: get_pr_comments returns one record for each comment whose content is not
\* empty and whose commentType is not "system", and for no other, in thread
\* order and then comment order; a thread without "comments" gives no record
\* and no error.
C4_FilterAndOrder ==
    FetchReturned =>
        LET kept == SelectSeq(C4_Flat(ThreadsFor(IntOf(pr_ids[1]))), C4_Keep)
        IN  /\ Len(comments) = Len(kept)
            /\ \A k \in 1..Len(kept) :
                 /\ comments[k].comment = kept[k].content
                 /\ comments[k].reviewer_name =
                      (IF kept[k].author = NoField THEN "Unknown" ELSE kept[k].author)
                 /\ comments[k].date = kept[k].publishedDate
            /\ exit_code = -1

C4_Witness ==
    /\ FetchReturned
    /\ ThreadsFor(IntOf(pr_ids[1])) =
         <<BareThread,
           Thread(<<Comment("Ann", "a", "system", "2024-01-01"),
                    Comment(NoField, "a", "text", "2024-01-01")>>)>>
    /\ comments = <<[reviewer_name |-> "Unknown", comment |-> "a", date |-> "2024-01-01"]>>

\* ------------------------------------------------------------------ C5
\* the records the platform holds for a listed pull request
C5_NewOf(pr) ==
    IF pr.pullRequestId.kind = "int"
    THEN ExtractComments(ThreadsFor(pr.pullRequestId.n))
    ELSE <<>>
C5_Expected ==
    LET kept == SelectSeq(prs_data, C3_Kept)
    IN  RecsOf(out_before) \o Concat([k \in 1..Len(kept) |-> C5_NewOf(kept[k])])

\* C5 as stated: after a run that reached the output write, the output file
\* holds the records it held before the run followed by the records of each
\* listed identifier in order; the content before is a prefix of the content after.
C5_AppendOnly ==
    (RunOver /\ RunWrote) =>
        /\ fs[output] = JsonArray(C5_Expected)
        /\ IsPrefix(RecsOf(out_before), RecsOf(fs[output]))

\* C5 amended: the same, provided --output is not the identifier file
\* user_prs.json, which the run deletes after the write.
C5_AppendOnly_Amended ==
    (RunOver /\ RunWrote /\ output # IdsFile) =>
        /\ fs[output] = JsonArray(C5_Expected)
        /\ IsPrefix(RecsOf(out_before), RecsOf(fs[output]))

C5_Witness ==
    /\ RunOver /\ RunWrote /\ output # IdsFile
    /\ out_before = JsonArray(<<OldRecord>>)
    /\ Len(pr_ids) = 2
    /\ Len(RecsOf(fs[output])) = 4

\* ------------------------------------------------------------------ C6
\* two runs in a row that both wrote, the first from an absent output file
TwoRuns ==
    /\ run >= 2 /\ RunOver /\ exit_code = 0
    /\ prev.valid /\ prev.exit_code = 0 /\ prev.out_before = Absent

\* C6 as stated: the second run leaves twice the records of the first, the
\* second half a copy of the first half.
C6_SecondRunDoubles ==
    TwoRuns =>
        /\ prev.out_after.kind = "json_array"
        /\ fs[output] = JsonArray(prev.out_after.recs \o prev.out_after.recs)

\* C6 amended: the same, provided --output is not the identifier file user_prs.json.
C6_SecondRunDoubles_Amended ==
    (TwoRuns /\ output # IdsFile) =>
        /\ prev.out_after.kind = "json_array"
        /\ fs[output] = JsonArray(prev.out_after.recs \o prev.out_after.recs)

C6_Witness ==
    /\ TwoRuns /\ output # IdsFile
    /\ Len(prev.out_after.recs) = 3
    /\ Len(fs[output].recs) = 6

\* ------------------------------------------------------------------ C7
\* C7: a file the runs have written is a JSON array of records; and a run that
\* finds the output file absent or not parseable takes it for the empty
\* sequence and does not fail over it.
C7_PreviousOutputNeverFatal ==
    /\ RunWrote => fs[output].kind \in {"json_array", "absent"}
    /\ out_before.kind \in {"absent", "text", "bytes"} =>
         /\ ~Has("output_read_failed", 0)
         /\ ~Has("merge_failed", 0)
         /\ Has("output_read", 0) => existing_comments = AList(<<>>)

\* ------------------------------------------------------------------ C8
\* C8: a run that wrote the output file then attempts the deletion of the
\* identifier file; a deletion that succeeds leaves no identifier file, one
\* that fails is a warning only: exit status 0, the written output unchanged.
C8_DeleteAfterWrite ==
    /\ \A name \in {"ids_deleted", "ids_delete_failed"} :
         Has(name, 0) => RunWrote /\ Pos("output_written", 0) < Pos(name, 0)
    /\ (RunOver /\ RunWrote) =>
         /\ Has("ids_deleted", 0) \/ Has("ids_delete_failed", 0)
         /\ exit_code = 0
    /\ (RunOver /\ Has("ids_deleted", 0)) => fs[IdsFile] = Absent
    /\ (RunOver /\ Has("ids_delete_failed", 0)) =>
         /\ Said("Warning: Could not delete user_prs.json")
         /\ fs[output] = JsonArray(existing_comments.recs \o all_new_comments)

C8_Witness ==
    /\ RunOver /\ Has("ids_delete_failed", 0)
    /\ Len(all_new_comments) = 3
    /\ fs[IdsFile] # Absent

\* ------------------------------------------------------------------ C9
\* the steps of the run that read, and that write, the file at the output path
ReadsOutput(e) ==
    \/ e[1] \in {"output_read", "output_read_failed"}
    \/ output = IdsFile /\ e[1] = "ids_read"
WritesOutput(e) ==
    \/ e[1] = "output_written"
    \/ output = IdsFile /\ e[1] = "lister_done"
OutputReads == {n \in 1..Len(events) : ReadsOutput(events[n])}
OutputWrites == {n \in 1..Len(events) : WritesOutput(events[n])}
FetchSteps(k) ==
    {n \in 1..Len(events) :
        events[n] \in {Ev("fetch_start", k), Ev("fetch_returned", k),
                       Ev("fetch_skipped", k), Ev("fetch_failed", k)}}

\* the identifiers the PR Lister left for this run
C9_Listed == ParseIds(ids_listed.text)

C9_Order ==
    /\ Has("ids_read", 0) =>
         Has("lister_done", 0) /\ Pos("lister_done", 0) < Pos("ids_read", 0)
    /\ Cardinality(OutputReads) <= 1 /\ Cardinality(OutputWrites) <= 1
    /\ \A k \in 1..Len(pr_ids) :
         /\ Count("fetch_start", k) + Count("fetch_skipped", k) <= 1
         /\ \A n \in FetchSteps(k) :
              /\ \A r \in OutputReads : r < n
              /\ \A j \in 1..(k - 1) :
                   FetchEnded(j) /\ \A m \in FetchSteps(j) : m < n
    /\ \A w \in OutputWrites :
         \A k \in 1..Len(C9_Listed) :
            \E n \in 1..(w - 1) :
               events[n] \in {Ev("fetch_returned", k), Ev("fetch_skipped", k)}

C10_FailedRunLeavesFiles ==
    (output # IdsFile /\ RunOver /\ exit_code # 0) =>
        /\ ~RunWrote
        /\ fs[output] = out_before
        /\ Has("lister_done", 0) =>
             fs[IdsFile] = ids_listed /\ fs[IdsFile].kind # "absent"

C10_Witness ==
    /\ output # IdsFile /\ RunOver /\ exit_code # 0
    /\ Has("merge_failed", 0)
    /\ Has("fetch_returned", 1)
    /\ out_before = JsonOther

====
